---- MODULE Spec2Model ----
(***************************************************************************)
(* A state-machine model of the guessTheRank server (src/server.js, the    *)
(* second, multi-question version of the file: lines 481-987).             *)
(*                                                                         *)
(* The state is the room registry `games`, the live connections            *)
(* `sockets`, the question supply (the global ledger, the prefetch cache,  *)
(* the seed pool, the presence of the generative credential), the          *)
(* question assignments suspended on the generative service, and the       *)
(* messages the last handler emitted.  There is one action per socket      *)
(* handler, plus one for each resumption of a suspended assignment.        *)
(***************************************************************************)
EXTENDS Integers, Sequences, FiniteSets, TLC

VARIABLES
    games,                \* gameId -> room object            (server.js:509)
    sockets,              \* connection -> [playerName, rooms] (socket.io)
    globalUsedQuestions,  \* the global ledger                (server.js:534)
    questionCache,        \* the prefetch cache               (server.js:535)
    questionPool,         \* the seed pool, loaded at startup (server.js:510-519)
    fallbackQuestions,    \* the fallback list                (server.js:521-528)
    apiKey,               \* process.env.GROQ_API_KEY is set  (server.js:544)
    pending,              \* assignments suspended at `await axios.post`
    emitted               \* messages emitted by the last handler

vars == <<games, sockets, globalUsedQuestions, questionCache, questionPool,
          fallbackQuestions, apiKey, pending, emitted>>

-----------------------------------------------------------------------------
(* Bounds of the model *)

\* connections the server accepts in its lifetime
MaxSockets == 2
\* rooms that exist at the same time
MaxRooms == 1
\* entries of the fixed fallback list that the model keeps
NumFallback == 1
\* entries of the fallback list in the runs of the local pools
PoolsFallback == 2
\* assignments suspended on the generative service at the same time
MaxPending == 2
\* suspended assignments in the runs of the question supply
SupplyPending == 1
\* the value at which nextReveal stops counting up currentRevealIndex
MaxRevealIndex == 3

-----------------------------------------------------------------------------
(* Values *)

\* socket.playerName of a connection that never created or joined a game
NoName == "undefined"
\* JavaScript null / undefined in a room field
Null == "null"
Undefined == "undefined"
\* actualPosition: null
NullPos == -1
\* currentFullRanking: null
NullRanking == <<Null>>

\* an object with no keys
EmptyMap == [k \in {} |-> 0]

Put(f, k, v) == [x \in (DOMAIN f) \cup {k} |-> IF x = k THEN v ELSE f[x]]
Del(f, k) == [x \in (DOMAIN f) \ {k} |-> f[x]]

Range(seq) == {seq[i] : i \in 1..Len(seq)}

Min(a, b) == IF a <= b THEN a ELSE b

\* Array.prototype.indexOf, 0-based, -1 when absent
IndexOf(seq, x) ==
    IF x \in Range(seq)
    THEN (CHOOSE i \in 1..Len(seq) : seq[i] = x /\ \A j \in 1..(i - 1) : seq[j] # x) - 1
    ELSE -1

\* Array.prototype.splice(index, 1), index 0-based
Splice(seq, index) ==
    [i \in 1..(Len(seq) - 1) |-> IF i <= index THEN seq[i] ELSE seq[i + 1]]

\* every ordering of a sequence (sort(() => Math.random() - 0.5))
Shuffles(seq) ==
    LET n == Len(seq)
        perms == {f \in [1..n -> 1..n] : \A i, j \in 1..n : f[i] = f[j] => i = j}
    IN {[i \in 1..n |-> seq[f[i]]] : f \in perms}

\* (game.points[p] || 0)
PointsOf(points, p) == IF p \in DOMAIN points THEN points[p] ELSE 0

RECURSIVE InsertByPoints_BeforeTies(_, _, _)
\* variant: p is inserted before the elements with as many points
InsertByPoints_BeforeTies(sorted, p, points) ==
    IF sorted = <<>> THEN <<p>>
    ELSE IF PointsOf(points, Head(sorted)) > PointsOf(points, p)
         THEN <<Head(sorted)>> \o InsertByPoints_BeforeTies(Tail(sorted), p, points)
         ELSE <<p>> \o sorted

RECURSIVE InsertByPoints(_, _, _)
\* insert p after every element with at least as many points (stable, descending)
InsertByPoints(sorted, p, points) ==
    IF sorted = <<>> THEN <<p>>
    ELSE IF PointsOf(points, Head(sorted)) >= PointsOf(points, p)
         THEN <<Head(sorted)>> \o InsertByPoints(Tail(sorted), p, points)
         ELSE <<p>> \o sorted

RECURSIVE SortByPoints(_, _)
\* players.sort((a, b) => (points[b] || 0) - (points[a] || 0)): stable in Node >= 11
SortByPoints(players, points) ==
    IF players = <<>> THEN <<>>
    ELSE InsertByPoints(SortByPoints(SubSeq(players, 1, Len(players) - 1), points),
                        players[Len(players)], points)

-----------------------------------------------------------------------------
(* Messages *)

\* one emission: event `event` delivered to connection `to`. A gameState
\* snapshot of room g carries myQuestion (Undefined when the field is absent
\* or undefined) and its noMoreQuestions field.
Msg(to, event, text, g, myQuestion, noMore) ==
    [to |-> to, event |-> event, text |-> text, gameId |-> g,
     myQuestion |-> myQuestion, noMoreQuestions |-> noMore]

ErrorMsg(s, text) == Msg(s, "error", text, 0, Undefined, FALSE)

\* socket.emit('gameState', ...) to one connection
StateMsg(s, g, myQuestion, noMore) == Msg(s, "gameState", "", g, myQuestion, noMore)

\* io.to(gameId).emit('gameState', ...): every connection that joined the room
Broadcast(socks, g, myQuestion, noMore) ==
    {StateMsg(s, g, myQuestion, noMore) : s \in {x \in DOMAIN socks : g \in socks[x].rooms}}

\* the connections `find` may return for a player of room g
PlayerSockets(socks, g, p) ==
    {s \in DOMAIN socks : socks[s].playerName = p /\ g \in socks[s].rooms}

\* Array.from(io.sockets.sockets.values()).find(...): the first such
\* connection in the order of connecting, which is the order of the identifiers
PlayerSocket(socks, g, p) ==
    CHOOSE s \in PlayerSockets(socks, g, p) : \A x \in PlayerSockets(socks, g, p) : s <= x

\* game.players.forEach(player => playerSocket.emit('gameState', {...game,
\* myQuestion: game.questionAssignments[player]})): one message per player
\* that has a connection
PerPlayerEmits(socks, g, game) ==
    LET have == {p \in Range(game.players) : PlayerSockets(socks, g, p) # {}}
    IN {{StateMsg(PlayerSocket(socks, g, p), g,
                  IF p \in DOMAIN game.questionAssignments
                  THEN game.questionAssignments[p] ELSE Undefined,
                  game.noMoreQuestions) : p \in have}}

-----------------------------------------------------------------------------
(* Question supply: the local pools *)

\* the fixed fallback list (the model keeps its first NumFallback entries)
AllFallbackQuestions ==
    << "Who is the most likely to become a famous inventor?",
       "Who is the most likely to forget their own birthday?",
       "Who is the most likely to win a marathon?",
       "Who is the most likely to trip over their own shoelaces?",
       "Who is the most likely to start a successful company?",
       "Who is the most likely to lose their keys in their own house?" >>

\* the first n entries of the list
KeptFallback(n) ==
    SubSeq(AllFallbackQuestions, 1, IF n < 6 THEN n ELSE 6)

\* questionPool.filter(q => !usedQuestions.has(q) && !globalUsedQuestions.has(q))
FilterUnused(list, usedQuestions, ledger) ==
    SelectSeq(list, LAMBDA q : q \notin usedQuestions /\ q \notin ledger)

\* list.sort(() => Math.random() - 0.5).slice(0, n): n entries of the list,
\* at distinct positions, in any order
ShuffleSlice(list, n) ==
    LET m == Len(list)
        inj == {f \in [1..n -> 1..m] : \A i, j \in 1..n : f[i] = f[j] => i = j}
    IN {[i \in 1..n |-> list[f[i]]] : f \in inj}

\* selectFromQuestionPool: the sequences it may return; <<>> is its failure
\* (ledger: globalUsedQuestions at the time of the call)
selectFromQuestionPool(usedQuestions, ledger, numQuestions) ==
    LET availableQuestions == FilterUnused(questionPool, usedQuestions, ledger)
        availableFallbacks == FilterUnused(fallbackQuestions, usedQuestions, ledger)
        combinedQuestions == availableQuestions \o availableFallbacks
    IN IF Len(availableQuestions) < numQuestions
       THEN IF Len(combinedQuestions) < numQuestions
            THEN {<<>>}
            ELSE ShuffleSlice(combinedQuestions, numQuestions)
       ELSE ShuffleSlice(availableQuestions, numQuestions)

-----------------------------------------------------------------------------
(* Question strings of the model and their text *)

\* entries of a seed pool (questions.json is not part of the sources)
Seed1 == "Who is the most likely to sing karaoke in public?"
Seed2 == "Who is the most likely to adopt ten cats?"
Seed3 == "Who is the most likely to run for mayor?"
\* strings the generative service may answer with: Gen2 is a near-duplicate of
\* Gen1, BadFormat lacks the required opening
Gen1 == "Who is the most likely to move abroad for work?"
Gen2 == "Who is the most likely to move abroad for a job?"
Gen3 == "Who is the most likely to eat pizza every day?"
BadFormat == "Which player snores?"

QuestionUniverse == Range(AllFallbackQuestions) \cup {Seed1, Seed2, Seed3, Gen1, Gen2, Gen3, BadFormat}

\* the characters of a question string
TextOf(q) ==
    CASE q = AllFallbackQuestions[1] ->
           <<"W", "h", "o", " ", "i", "s", " ", "t", "h", "e", " ", "m", "o", "s", "t", " ", "l", "i", "k", "e", "l", "y", " ", "t", "o", " ", "b", "e", "c", "o", "m", "e", " ", "a", " ", "f", "a", "m", "o", "u", "s", " ", "i", "n", "v", "e", "n", "t", "o", "r", "?">>
      [] q = AllFallbackQuestions[2] ->
           <<"W", "h", "o", " ", "i", "s", " ", "t", "h", "e", " ", "m", "o", "s", "t", " ", "l", "i", "k", "e", "l", "y", " ", "t", "o", " ", "f", "o", "r", "g", "e", "t", " ", "t", "h", "e", "i", "r", " ", "o", "w", "n", " ", "b", "i", "r", "t", "h", "d", "a", "y", "?">>
      [] q = AllFallbackQuestions[3] ->
           <<"W", "h", "o", " ", "i", "s", " ", "t", "h", "e", " ", "m", "o", "s", "t", " ", "l", "i", "k", "e", "l", "y", " ", "t", "o", " ", "w", "i", "n", " ", "a", " ", "m", "a", "r", "a", "t", "h", "o", "n", "?">>
      [] q = AllFallbackQuestions[4] ->
           <<"W", "h", "o", " ", "i", "s", " ", "t", "h", "e", " ", "m", "o", "s", "t", " ", "l", "i", "k", "e", "l", "y", " ", "t", "o", " ", "t", "r", "i", "p", " ", "o", "v", "e", "r", " ", "t", "h", "e", "i", "r", " ", "o", "w", "n", " ", "s", "h", "o", "e", "l", "a", "c", "e", "s", "?">>
      [] q = AllFallbackQuestions[5] ->
           <<"W", "h", "o", " ", "i", "s", " ", "t", "h", "e", " ", "m", "o", "s", "t", " ", "l", "i", "k", "e", "l", "y", " ", "t", "o", " ", "s", "t", "a", "r", "t", " ", "a", " ", "s", "u", "c", "c", "e", "s", "s", "f", "u", "l", " ", "c", "o", "m", "p", "a", "n", "y", "?">>
      [] q = AllFallbackQuestions[6] ->
           <<"W", "h", "o", " ", "i", "s", " ", "t", "h", "e", " ", "m", "o", "s", "t", " ", "l", "i", "k", "e", "l", "y", " ", "t", "o", " ", "l", "o", "s", "e", " ", "t", "h", "e", "i", "r", " ", "k", "e", "y", "s", " ", "i", "n", " ", "t", "h", "e", "i", "r", " ", "o", "w", "n", " ", "h", "o", "u", "s", "e", "?">>
      [] q = Seed1 ->
           <<"W", "h", "o", " ", "i", "s", " ", "t", "h", "e", " ", "m", "o", "s", "t", " ", "l", "i", "k", "e", "l", "y", " ", "t", "o", " ", "s", "i", "n", "g", " ", "k", "a", "r", "a", "o", "k", "e", " ", "i", "n", " ", "p", "u", "b", "l", "i", "c", "?">>
      [] q = Seed2 ->
           <<"W", "h", "o", " ", "i", "s", " ", "t", "h", "e", " ", "m", "o", "s", "t", " ", "l", "i", "k", "e", "l", "y", " ", "t", "o", " ", "a", "d", "o", "p", "t", " ", "t", "e", "n", " ", "c", "a", "t", "s", "?">>
      [] q = Seed3 ->
           <<"W", "h", "o", " ", "i", "s", " ", "t", "h", "e", " ", "m", "o", "s", "t", " ", "l", "i", "k", "e", "l", "y", " ", "t", "o", " ", "r", "u", "n", " ", "f", "o", "r", " ", "m", "a", "y", "o", "r", "?">>
      [] q = Gen1 ->
           <<"W", "h", "o", " ", "i", "s", " ", "t", "h", "e", " ", "m", "o", "s", "t", " ", "l", "i", "k", "e", "l", "y", " ", "t", "o", " ", "m", "o", "v", "e", " ", "a", "b", "r", "o", "a", "d", " ", "f", "o", "r", " ", "w", "o", "r", "k", "?">>
      [] q = Gen2 ->
           <<"W", "h", "o", " ", "i", "s", " ", "t", "h", "e", " ", "m", "o", "s", "t", " ", "l", "i", "k", "e", "l", "y", " ", "t", "o", " ", "m", "o", "v", "e", " ", "a", "b", "r", "o", "a", "d", " ", "f", "o", "r", " ", "a", " ", "j", "o", "b", "?">>
      [] q = Gen3 ->
           <<"W", "h", "o", " ", "i", "s", " ", "t", "h", "e", " ", "m", "o", "s", "t", " ", "l", "i", "k", "e", "l", "y", " ", "t", "o", " ", "e", "a", "t", " ", "p", "i", "z", "z", "a", " ", "e", "v", "e", "r", "y", " ", "d", "a", "y", "?">>
      [] q = BadFormat ->
           <<"W", "h", "i", "c", "h", " ", "p", "l", "a", "y", "e", "r", " ", "s", "n", "o", "r", "e", "s", "?">>

\* q.startsWith('Who is the most likely to')
RequiredOpening ==
    <<"W", "h", "o", " ", "i", "s", " ", "t", "h", "e", " ", "m", "o", "s", "t", " ", "l", "i", "k", "e", "l", "y", " ", "t", "o">>

StartsWith(text, prefix) ==
    /\ Len(text) >= Len(prefix)
    /\ \A i \in 1..Len(prefix) : text[i] = prefix[i]

\* occurrences of a bigram in a list of bigrams
CountOf(bg, bigrams) == Cardinality({i \in 1..Len(bigrams) : bigrams[i] = bg})

RECURSIVE CommonBigrams(_, _, _)
\* the size of the intersection of two bags of bigrams, summed over the
\* distinct bigrams S of the first
CommonBigrams(S, ba, bb) ==
    IF S = {} THEN 0
    ELSE LET bg == CHOOSE x \in S : TRUE
         IN Min(CountOf(bg, ba), CountOf(bg, bb)) + CommonBigrams(S \ {bg}, ba, bb)

\* string-similarity's compareTwoStrings (the Dice coefficient of the character
\* bigrams, whitespace removed), as the fraction <<numerator, denominator>>
compareTwoStrings(first, second) ==
    LET a == SelectSeq(first, LAMBDA c : c # " ")
        b == SelectSeq(second, LAMBDA c : c # " ")
        ba == [i \in 1..(Len(a) - 1) |-> <<a[i], a[i + 1]>>]
        bb == [i \in 1..(Len(b) - 1) |-> <<b[i], b[i + 1]>>]
    IN IF a = b THEN <<1, 1>>
       ELSE IF Len(a) < 2 \/ Len(b) < 2 THEN <<0, 1>>
       ELSE <<2 * CommonBigrams(Range(ba), ba, bb), Len(a) + Len(b) - 2>>

\* the scores of the model's strings, computed once
Similarity ==
    [a \in QuestionUniverse |-> [b \in QuestionUniverse |->
        compareTwoStrings(TextOf(a), TextOf(b))]]

\* similarity > 0.7
TooSimilar(a, b) == 10 * Similarity[a][b][1] > 7 * Similarity[a][b][2]

\* the format test of a generated question (it is a non-empty string)
ValidFormat(q) == StartsWith(TextOf(q), RequiredOpening)

-----------------------------------------------------------------------------
(* Rooms *)

\* the room object createGame builds
NewGame(playerName) ==
    [players |-> <<playerName>>,
     points |-> [p \in {playerName} |-> 0],
     state |-> "waiting",
     owner |-> playerName,
     usedQuestions |-> {},
     questionAssignments |-> EmptyMap,
     rankings |-> EmptyMap,
     currentRanker |-> Null,
     currentTarget |-> Null,
     currentQuestion |-> Null,
     currentGuesses |-> EmptyMap,
     actualPosition |-> NullPos,
     currentFullRanking |-> NullRanking,
     rankers |-> <<>>,
     currentRevealIndex |-> 0,
     noMoreQuestions |-> FALSE]

\* game.questionAssignments[p]
AssignedQuestion(game, p) ==
    IF p \in DOMAIN game.questionAssignments THEN game.questionAssignments[p] ELSE Undefined

\* variant: the assignment leaves currentRevealIndex as it is
AssignTo_KeepsIndex(game, questions, rankers, usedQuestions) ==
    [game EXCEPT
        !.usedQuestions = usedQuestions,
        !.questionAssignments =
            [p \in Range(game.players) |->
                LET idx == IndexOf(game.players, p) + 1
                IN IF idx <= Len(questions) THEN questions[idx] ELSE Undefined],
        !.rankings = EmptyMap,
        !.rankers = rankers]

\* assignQuestions after a successful selectQuestions: questions shuffled once
\* more and dealt to the players by index; game.usedQuestions was extended by
\* the selection
AssignTo(game, questions, rankers, usedQuestions) ==
    [game EXCEPT
        !.usedQuestions = usedQuestions,
        !.questionAssignments =
            [p \in Range(game.players) |->
                LET idx == IndexOf(game.players, p) + 1
                IN IF idx <= Len(questions) THEN questions[idx] ELSE Undefined],
        !.rankings = EmptyMap,
        !.rankers = rankers,
        !.currentRevealIndex = 0]

\* the reveal setNextReveal would set up can be computed: rankers[index] has a
\* ranking (otherwise rankings[ranker].indexOf throws)
CanReveal(game) ==
    /\ game.currentRevealIndex + 1 <= Len(game.rankers)
    /\ game.rankers[game.currentRevealIndex + 1] \in DOMAIN game.rankings

\* variant: the reveal keeps the guesses and the full ranking of the last one
SetReveal_KeepsGuesses(game, target) ==
    LET ranker == game.rankers[game.currentRevealIndex + 1]
    IN [game EXCEPT
           !.currentRanker = ranker,
           !.currentTarget = target,
           !.currentQuestion = AssignedQuestion(game, ranker),
           !.actualPosition = IndexOf(game.rankings[ranker], target) + 1,
           !.state = "guessing"]

\* variant: the ranker of a reveal is taken from players, not from rankers
SetReveal_ByPlayers(game, target) ==
    LET ranker == game.players[game.currentRevealIndex + 1]
    IN [game EXCEPT
           !.currentRanker = ranker,
           !.currentTarget = target,
           !.currentQuestion = AssignedQuestion(game, ranker),
           !.currentGuesses = EmptyMap,
           !.actualPosition = IndexOf(game.rankings[ranker], target) + 1,
           !.currentFullRanking = NullRanking,
           !.state = "guessing"]

\* setNextReveal, the branch currentRevealIndex < players.length
SetReveal(game, target) ==
    LET ranker == game.rankers[game.currentRevealIndex + 1]
    IN [game EXCEPT
           !.currentRanker = ranker,
           !.currentTarget = target,
           !.currentQuestion = AssignedQuestion(game, ranker),
           !.currentGuesses = EmptyMap,
           !.actualPosition = IndexOf(game.rankings[ranker], target) + 1,
           !.currentFullRanking = NullRanking,
           !.state = "guessing"]

\* variant: the new round is set up, but the room stays in its phase
NewRound_KeepsPhase(game) ==
    [game EXCEPT
        !.rankings = EmptyMap,
        !.currentRanker = Null,
        !.currentTarget = Null,
        !.currentQuestion = Null,
        !.currentGuesses = EmptyMap,
        !.actualPosition = NullPos,
        !.currentFullRanking = NullRanking]

\* startNewRound after a successful assignQuestions
NewRound(game) ==
    [game EXCEPT
        !.state = "ranking",
        !.rankings = EmptyMap,
        !.currentRanker = Null,
        !.currentTarget = Null,
        !.currentQuestion = Null,
        !.currentGuesses = EmptyMap,
        !.actualPosition = NullPos,
        !.currentFullRanking = NullRanking]

\* the guessers whose guess equals actualPosition
CorrectGuessers(game) ==
    {p \in DOMAIN game.currentGuesses : game.currentGuesses[p] = game.actualPosition}

\* variant: no cap on the ranker's reward
RankerPoints_Uncapped(correctGuessCount) == correctGuessCount

\* Math.min(correctGuessCount, 3)
RankerPoints(correctGuessCount) == Min(correctGuessCount, 3)

\* variant: the ranker is rewarded for every guess, right or wrong
ScoredPoints_CountsAll(game) ==
    LET correct == CorrectGuessers(game)
        guessed == [p \in (DOMAIN game.points) \cup correct |->
                       PointsOf(game.points, p) + (IF p \in correct THEN 1 ELSE 0)]
    IN Put(guessed, game.currentRanker,
           PointsOf(guessed, game.currentRanker)
               + RankerPoints(Cardinality(DOMAIN game.currentGuesses)))

\* the points after the scoring of a reveal
ScoredPoints(game) ==
    LET correct == CorrectGuessers(game)
        guessed == [p \in (DOMAIN game.points) \cup correct |->
                       PointsOf(game.points, p) + (IF p \in correct THEN 1 ELSE 0)]
    IN Put(guessed, game.currentRanker,
           PointsOf(guessed, game.currentRanker) + RankerPoints(Cardinality(correct)))

\* variant: the scoring leaves the room in phase guessing
Score_NoPhaseChange(game) ==
    LET points == ScoredPoints(game)
    IN [game EXCEPT
           !.points = points,
           !.players = SortByPoints(game.players, points),
           !.currentFullRanking =
               IF game.currentRanker \in DOMAIN game.rankings
               THEN game.rankings[game.currentRanker] ELSE <<Undefined>>]

\* submitGuess, the branch that ends the reveal
Score(game) ==
    LET points == ScoredPoints(game)
    IN [game EXCEPT
           !.points = points,
           !.players = SortByPoints(game.players, points),
           !.currentFullRanking =
               IF game.currentRanker \in DOMAIN game.rankings
               THEN game.rankings[game.currentRanker] ELSE <<Undefined>>,
           !.state = "reveal"]

-----------------------------------------------------------------------------
(* Handlers that do not assign questions *)

\* a connection: socket.playerName, the socket.io rooms it joined, and whether
\* it is still connected
Socket(playerName, rooms, open) ==
    [playerName |-> playerName, rooms |-> rooms, open |-> open]

\* socket.join(gameId); socket.playerName = playerName
JoinedAs(s, g, playerName) ==
    [sockets EXCEPT ![s] = Socket(playerName, sockets[s].rooms \cup {g}, TRUE)]

\* g: the token generateGameId returns, one that no room of the registry has
createGame(s, g, playerName) ==
    /\ g \notin DOMAIN games
    /\ games' = [x \in (DOMAIN games) \cup {g} |->
                    IF x = g THEN NewGame(playerName) ELSE games[x]]
    /\ sockets' = JoinedAs(s, g, playerName)
    /\ emitted' = {StateMsg(s, g, Undefined, FALSE)}
    /\ UNCHANGED <<globalUsedQuestions, questionCache, questionPool, fallbackQuestions, apiKey, pending>>

\* variant: a name the room already has is let in again
joinGame_NoNameCheck(s, g, playerName) ==
    /\ IF g \notin DOMAIN games
       THEN /\ emitted' = {ErrorMsg(s, "Game not found")}
            /\ UNCHANGED <<games, sockets>>
       ELSE /\ games' = [games EXCEPT ![g] =
                            [@ EXCEPT !.players = Append(@, playerName),
                                      !.points = Put(@, playerName, 0),
                                      !.state = "waiting"]]
            /\ sockets' = JoinedAs(s, g, playerName)
            /\ emitted' = Broadcast(sockets', g, Undefined, games[g].noMoreQuestions)
    /\ UNCHANGED <<globalUsedQuestions, questionCache, questionPool, fallbackQuestions, apiKey, pending>>

\* variant: a join leaves the room's phase as it is
joinGame_KeepsPhase(s, g, playerName) ==
    /\ IF g \notin DOMAIN games
       THEN /\ emitted' = {ErrorMsg(s, "Game not found")}
            /\ UNCHANGED <<games, sockets>>
       ELSE IF playerName \in Range(games[g].players)
       THEN /\ emitted' = {ErrorMsg(s, "Name already taken")}
            /\ UNCHANGED <<games, sockets>>
       ELSE /\ games' = [games EXCEPT ![g] =
                            [@ EXCEPT !.players = Append(@, playerName),
                                      !.points = Put(@, playerName, 0)]]
            /\ sockets' = JoinedAs(s, g, playerName)
            /\ emitted' = Broadcast(sockets', g, Undefined, games[g].noMoreQuestions)
    /\ UNCHANGED <<globalUsedQuestions, questionCache, questionPool, fallbackQuestions, apiKey, pending>>

joinGame(s, g, playerName) ==
    /\ IF g \notin DOMAIN games
       THEN /\ emitted' = {ErrorMsg(s, "Game not found")}
            /\ UNCHANGED <<games, sockets>>
       ELSE IF playerName \in Range(games[g].players)
       THEN /\ emitted' = {ErrorMsg(s, "Name already taken")}
            /\ UNCHANGED <<games, sockets>>
       ELSE /\ games' = [games EXCEPT ![g] =
                            [@ EXCEPT !.players = Append(@, playerName),
                                      !.points = Put(@, playerName, 0),
                                      !.state = "waiting"]]
            /\ sockets' = JoinedAs(s, g, playerName)
            /\ emitted' = Broadcast(sockets', g, Undefined, games[g].noMoreQuestions)
    /\ UNCHANGED <<globalUsedQuestions, questionCache, questionPool, fallbackQuestions, apiKey, pending>>

\* variant: the reveals begin at the first ranking
AllRanked_Early(game) == Cardinality(DOMAIN game.rankings) >= 1

\* Object.keys(game.rankings).length === game.players.length
AllRanked(game) == Cardinality(DOMAIN game.rankings) = Len(game.players)

\* Object.keys(game.currentGuesses).length === nonRankerPlayers.length
AllGuessed(game) ==
    LET nonRankerPlayers == SelectSeq(game.players, LAMBDA p : p # game.currentRanker)
    IN Cardinality(DOMAIN game.currentGuesses) = Len(nonRankerPlayers)

\* the ranking passes submitRanking's test
RankingAccepted(game, ranking) ==
    /\ Len(ranking) = Len(game.players)
    /\ \A i \in 1..Len(ranking) : ranking[i] \in Range(game.players)

submitRanking(s, g, ranking, target) ==
    LET playerName == sockets[s].playerName IN
    /\ IF g \notin DOMAIN games \/ playerName \notin Range(games[g].players)
       THEN /\ emitted' = {}
            /\ UNCHANGED games
       ELSE IF games[g].state # "ranking"
       THEN /\ emitted' = {}
            /\ UNCHANGED games
       ELSE IF ~RankingAccepted(games[g], ranking)
       THEN /\ emitted' = {ErrorMsg(s, "Invalid ranking")}
            /\ UNCHANGED games
       ELSE LET game == [games[g] EXCEPT !.rankings = Put(@, playerName, ranking)]
                ack == {Msg(s, "rankingSubmitted", "", g, Undefined, FALSE)}
            IN IF AllRanked(game)
               THEN \* setNextReveal; currentRevealIndex >= players.length does
                    \* not occur in phase ranking (invariant RevealPossible)
                    /\ CanReveal(game)
                    /\ target \in Range(game.players)
                    /\ games' = [games EXCEPT ![g] = SetReveal(game, target)]
                    /\ \E e \in PerPlayerEmits(sockets, g, games'[g]) : emitted' = ack \cup e
               ELSE /\ games' = [games EXCEPT ![g] = game]
                    /\ emitted' = ack
    /\ UNCHANGED <<sockets, globalUsedQuestions, questionCache, questionPool, fallbackQuestions, apiKey, pending>>

\* variant: no upper limit on the guessed position
GuessAccepted_NoUpperLimit(game, guess) == ~(guess < 1)

\* the guess passes submitGuess's range test
GuessAccepted(game, guess) == ~(guess < 1 \/ guess > Len(game.players))

submitGuess(s, g, guess) ==
    LET playerName == sockets[s].playerName IN
    /\ IF g \notin DOMAIN games \/ playerName \notin Range(games[g].players)
       THEN /\ emitted' = {}
            /\ UNCHANGED games
       ELSE IF games[g].state # "guessing"
       THEN /\ emitted' = {}
            /\ UNCHANGED games
       ELSE IF playerName = games[g].currentRanker
       THEN /\ emitted' = {ErrorMsg(s, "You cannot guess as the ranker")}
            /\ UNCHANGED games
       ELSE IF ~GuessAccepted(games[g], guess)
       THEN /\ emitted' = {ErrorMsg(s, "Invalid guess")}
            /\ UNCHANGED games
       ELSE LET game == [games[g] EXCEPT !.currentGuesses = Put(@, playerName, guess)]
            IN IF AllGuessed(game)
               THEN /\ games' = [games EXCEPT ![g] = Score(game)]
                    /\ emitted' \in PerPlayerEmits(sockets, g, games'[g])
               ELSE /\ games' = [games EXCEPT ![g] = game]
                    /\ emitted' = Broadcast(sockets, g, AssignedQuestion(game, playerName),
                                            game.noMoreQuestions)
    /\ UNCHANGED <<sockets, globalUsedQuestions, questionCache, questionPool, fallbackQuestions, apiKey, pending>>

-----------------------------------------------------------------------------
(* Question supply: the generative path, and question assignment *)

\* const maxRetries = 10
maxRetries == 10

RECURSIVE DrainCache(_, _, _, _, _)
\* the loop over questionCache at the start of selectQuestions
DrainCache(cache, cachedQuestions, usedQuestions, ledger, numQuestions) ==
    IF Len(cache) > 0 /\ Len(cachedQuestions) < numQuestions
    THEN LET cachedQuestion == Head(cache)
         IN IF cachedQuestion \notin usedQuestions /\ cachedQuestion \notin ledger
            THEN DrainCache(Tail(cache), Append(cachedQuestions, cachedQuestion),
                            usedQuestions \cup {cachedQuestion},
                            ledger \cup {cachedQuestion}, numQuestions)
            ELSE DrainCache(Tail(cache), cachedQuestions, usedQuestions, ledger, numQuestions)
    ELSE [cache |-> cache, cachedQuestions |-> cachedQuestions,
          usedQuestions |-> usedQuestions, ledger |-> ledger]

\* variant: the similarity test is left out
Acceptable_NoSimilarity(question, usedQuestions, ledger) ==
    /\ question \notin usedQuestions
    /\ question \notin ledger

\* a generated question passes the duplicate and similarity tests
Acceptable(question, usedQuestions, ledger) ==
    /\ question \notin usedQuestions
    /\ question \notin ledger
    /\ \A existingKey \in ledger : ~TooSimilar(question, existingKey)

RECURSIVE AcceptGenerated(_, _, _, _)
\* the loop over newQuestions: each accepted question enters the room's
\* used-set and the ledger at once
AcceptGenerated(newQuestions, validQuestions, usedQuestions, ledger) ==
    IF newQuestions = <<>>
    THEN [validQuestions |-> validQuestions, usedQuestions |-> usedQuestions,
          ledger |-> ledger]
    ELSE LET question == Head(newQuestions)
         IN IF Acceptable(question, usedQuestions, ledger)
            THEN AcceptGenerated(Tail(newQuestions), Append(validQuestions, question),
                                 usedQuestions \cup {question}, ledger \cup {question})
            ELSE AcceptGenerated(Tail(newQuestions), validQuestions, usedQuestions, ledger)

\* the response is thrown away before any question is looked at: a request
\* error, an empty or malformed body, too few questions, a wrong opening
ResponseRejected(response, questionsNeeded) ==
    \/ response = <<>>
    \/ Len(response) < questionsNeeded
    \/ \E i \in 1..Len(response) : ~ValidFormat(response[i])

\* an assignment suspended at `await axios.post`
Task(kind, s, g, numQuestions, cachedQuestions, attempt) ==
    [kind |-> kind, sock |-> s, gameId |-> g, live |-> TRUE,
     numQuestions |-> numQuestions, cachedQuestions |-> cachedQuestions,
     attempt |-> attempt, usedQuestions |-> {}]

\* game.usedQuestions of the room object a task holds
UsedOf(task) ==
    IF task.live THEN games[task.gameId].usedQuestions ELSE task.usedQuestions

RemoveAt(seq, i) == [j \in 1..(Len(seq) - 1) |-> IF j < i THEN seq[j] ELSE seq[j + 1]]

\* variant: assignQuestions clears questionAssignments and rankings before it
\* tests the number of questions
FinishAssign_ClearsFirst(kind, s, g, live, game, numPlayers, questions, usedQuestions, ledger, poolFailed) ==
    /\ globalUsedQuestions' = ledger
    /\ IF Len(questions) < numPlayers
       THEN /\ games' = IF live
                        THEN [games EXCEPT ![g] = [game EXCEPT !.usedQuestions = usedQuestions,
                                                                !.questionAssignments = EmptyMap,
                                                                !.rankings = EmptyMap]]
                        ELSE games
            /\ emitted' =
                  (IF poolFailed THEN Broadcast(sockets, g, Undefined, TRUE) ELSE {})
                  \cup (IF kind = "startGame"
                        THEN (IF s # 0
                              THEN {ErrorMsg(s, "No more unique questions available.")}
                              ELSE {})
                        ELSE Broadcast(sockets, g, Undefined, TRUE))
       ELSE IF live
            THEN \E rankers \in Shuffles(game.players) :
                    LET assigned == AssignTo(game, questions, rankers, usedQuestions)
                        started == IF kind = "startGame"
                                   THEN [assigned EXCEPT !.state = "ranking"]
                                   ELSE NewRound(assigned)
                    IN /\ games' = [games EXCEPT ![g] = started]
                       /\ emitted' \in PerPlayerEmits(sockets, g, started)
            ELSE /\ games' = games
                 /\ emitted' = {}

\* what follows selectQuestions in assignQuestions and its caller (startGame or
\* startNewRound), for the room object `game` (registered under g when live):
\* questions is what selectQuestions returned, usedQuestions and ledger are the
\* sets it left, poolFailed tells that selectFromQuestionPool gave up
FinishAssign(kind, s, g, live, game, numPlayers, questions, usedQuestions, ledger, poolFailed) ==
    /\ globalUsedQuestions' = ledger
    /\ IF Len(questions) < numPlayers
       THEN /\ games' = IF live
                        THEN [games EXCEPT ![g] = [game EXCEPT !.usedQuestions = usedQuestions]]
                        ELSE games
            /\ emitted' =
                  (IF poolFailed THEN Broadcast(sockets, g, Undefined, TRUE) ELSE {})
                  \cup (IF kind = "startGame"
                        THEN (IF s # 0
                              THEN {ErrorMsg(s, "No more unique questions available.")}
                              ELSE {})
                        ELSE Broadcast(sockets, g, Undefined, TRUE))
       ELSE IF live
            THEN \E rankers \in Shuffles(game.players) :
                    LET assigned == AssignTo(game, questions, rankers, usedQuestions)
                        started == IF kind = "startGame"
                                   THEN [assigned EXCEPT !.state = "ranking"]
                                   ELSE NewRound(assigned)
                    IN /\ games' = [games EXCEPT ![g] = started]
                       /\ emitted' \in PerPlayerEmits(sockets, g, started)
            ELSE /\ games' = games
                 /\ emitted' = {}

\* assignQuestions up to its first suspension, called for room object `game`
BeginAssign(kind, s, g, game) ==
    LET numPlayers == Len(game.players) IN
    /\ UNCHANGED <<sockets, questionPool, fallbackQuestions, apiKey>>
    /\ IF ~apiKey
       THEN \E questions \in selectFromQuestionPool(game.usedQuestions, globalUsedQuestions,
                                                    numPlayers) :
               /\ FinishAssign(kind, s, g, TRUE, game, numPlayers, questions,
                               game.usedQuestions \cup Range(questions),
                               globalUsedQuestions \cup Range(questions),
                               questions = <<>>)
               /\ UNCHANGED <<questionCache, pending>>
       ELSE LET d == DrainCache(questionCache, <<>>, game.usedQuestions,
                                globalUsedQuestions, numPlayers)
            IN IF Len(d.cachedQuestions) >= numPlayers
               THEN /\ FinishAssign(kind, s, g, TRUE, game, numPlayers,
                                    SubSeq(d.cachedQuestions, 1, numPlayers),
                                    d.usedQuestions, d.ledger, FALSE)
                    /\ questionCache' = d.cache
                    /\ UNCHANGED pending
               ELSE /\ Len(pending) < MaxPending
                    /\ pending' = Append(pending,
                                         Task(kind, s, g, numPlayers, d.cachedQuestions, 1))
                    /\ games' = [games EXCEPT ![g] =
                                    [game EXCEPT !.usedQuestions = d.usedQuestions]]
                    /\ globalUsedQuestions' = d.ledger
                    /\ questionCache' = d.cache
                    /\ emitted' = {}

startGame(s, g) ==
    IF g \notin DOMAIN games \/ games[g].owner # sockets[s].playerName
    THEN /\ emitted' = {ErrorMsg(s, "Only the game owner can start the game")}
         /\ UNCHANGED <<games, sockets, globalUsedQuestions, questionCache, questionPool, fallbackQuestions,
                        apiKey, pending>>
    ELSE BeginAssign("startGame", s, g, games[g])

nextReveal(s, g, target) ==
    IF g \notin DOMAIN games \/ games[g].owner # sockets[s].playerName
    THEN /\ emitted' = {ErrorMsg(s, "Only the game owner can advance")}
         /\ UNCHANGED <<games, sockets, globalUsedQuestions, questionCache, questionPool, fallbackQuestions,
                        apiKey, pending>>
    ELSE IF games[g].state # "reveal"
    THEN /\ emitted' = {}
         /\ UNCHANGED <<games, sockets, globalUsedQuestions, questionCache, questionPool, fallbackQuestions,
                        apiKey, pending>>
    ELSE LET game == [games[g] EXCEPT !.currentRevealIndex = @ + 1]
         IN /\ games[g].currentRevealIndex < MaxRevealIndex
            /\ IF game.currentRevealIndex >= Len(game.players)
               THEN BeginAssign("startNewRound", 0, g, game)
               ELSE /\ CanReveal(game)
                    /\ target \in Range(game.players)
                    /\ games' = [games EXCEPT ![g] = SetReveal(game, target)]
                    /\ emitted' \in PerPlayerEmits(sockets, g, games'[g])
                    /\ UNCHANGED <<sockets, globalUsedQuestions, questionCache,
                                   questionPool, fallbackQuestions, apiKey, pending>>

\* variant: the request is repeated without a limit on the attempts
ApiResponse_Unlimited(i, response) ==
    LET task == pending[i]
        g == task.gameId
        game == IF task.live THEN games[g] ELSE NewGame(Null)
        questionsNeeded == task.numQuestions - Len(task.cachedQuestions)
        rejected == ResponseRejected(response, questionsNeeded)
        acc == IF rejected
               THEN [validQuestions |-> <<>>, usedQuestions |-> UsedOf(task),
                     ledger |-> globalUsedQuestions]
               ELSE AcceptGenerated(response, <<>>, UsedOf(task), globalUsedQuestions)
        cache == IF Len(acc.validQuestions) > questionsNeeded
                 THEN questionCache \o SubSeq(acc.validQuestions, questionsNeeded + 1,
                                              Len(acc.validQuestions))
                 ELSE questionCache
        allQuestions == task.cachedQuestions
                        \o SubSeq(acc.validQuestions, 1,
                                  Min(questionsNeeded, Len(acc.validQuestions)))
    IN
    /\ UNCHANGED <<sockets, questionPool, fallbackQuestions, apiKey>>
    /\ questionCache' = cache
    /\ IF ~rejected /\ Len(allQuestions) >= task.numQuestions
       THEN /\ FinishAssign(task.kind, task.sock, g, task.live, game, task.numQuestions,
                            SubSeq(allQuestions, 1, task.numQuestions),
                            acc.usedQuestions, acc.ledger, FALSE)
            /\ pending' = RemoveAt(pending, i)
       ELSE IF TRUE
       THEN /\ pending' = [pending EXCEPT ![i] =
                              [task EXCEPT !.attempt = Min(@ + 1, maxRetries),
                                           !.usedQuestions =
                                               IF task.live THEN @ ELSE acc.usedQuestions]]
            /\ games' = IF task.live
                        THEN [games EXCEPT ![g] =
                                 [game EXCEPT !.usedQuestions = acc.usedQuestions]]
                        ELSE games
            /\ globalUsedQuestions' = acc.ledger
            /\ emitted' = {}
       ELSE \E questions \in selectFromQuestionPool(acc.usedQuestions, acc.ledger,
                                                    task.numQuestions) :
               /\ FinishAssign(task.kind, task.sock, g, task.live, game, task.numQuestions,
                               questions, acc.usedQuestions \cup Range(questions),
                               acc.ledger \cup Range(questions), questions = <<>>)
               /\ pending' = RemoveAt(pending, i)

\* the answer of the generative service to the request of pending[i] arrives
ApiResponse(i, response) ==
    LET task == pending[i]
        g == task.gameId
        game == IF task.live THEN games[g] ELSE NewGame(Null)
        questionsNeeded == task.numQuestions - Len(task.cachedQuestions)
        rejected == ResponseRejected(response, questionsNeeded)
        acc == IF rejected
               THEN [validQuestions |-> <<>>, usedQuestions |-> UsedOf(task),
                     ledger |-> globalUsedQuestions]
               ELSE AcceptGenerated(response, <<>>, UsedOf(task), globalUsedQuestions)
        cache == IF Len(acc.validQuestions) > questionsNeeded
                 THEN questionCache \o SubSeq(acc.validQuestions, questionsNeeded + 1,
                                              Len(acc.validQuestions))
                 ELSE questionCache
        allQuestions == task.cachedQuestions
                        \o SubSeq(acc.validQuestions, 1,
                                  Min(questionsNeeded, Len(acc.validQuestions)))
    IN
    /\ UNCHANGED <<sockets, questionPool, fallbackQuestions, apiKey>>
    /\ questionCache' = cache
    /\ IF ~rejected /\ Len(allQuestions) >= task.numQuestions
       THEN /\ FinishAssign(task.kind, task.sock, g, task.live, game, task.numQuestions,
                            SubSeq(allQuestions, 1, task.numQuestions),
                            acc.usedQuestions, acc.ledger, FALSE)
            /\ pending' = RemoveAt(pending, i)
       ELSE IF task.attempt < maxRetries
       THEN /\ pending' = [pending EXCEPT ![i] =
                              [task EXCEPT !.attempt = @ + 1,
                                           !.usedQuestions =
                                               IF task.live THEN @ ELSE acc.usedQuestions]]
            /\ games' = IF task.live
                        THEN [games EXCEPT ![g] =
                                 [game EXCEPT !.usedQuestions = acc.usedQuestions]]
                        ELSE games
            /\ globalUsedQuestions' = acc.ledger
            /\ emitted' = {}
       ELSE \E questions \in selectFromQuestionPool(acc.usedQuestions, acc.ledger,
                                                    task.numQuestions) :
               /\ FinishAssign(task.kind, task.sock, g, task.live, game, task.numQuestions,
                               questions, acc.usedQuestions \cup Range(questions),
                               acc.ledger \cup Range(questions), questions = <<>>)
               /\ pending' = RemoveAt(pending, i)

\* variant: the leaving player's points entry is kept
RemovePlayer_KeepsPoints(game, playerName) ==
    LET players == Splice(game.players, IndexOf(game.players, playerName))
    IN [game EXCEPT
           !.players = IF Len(players) = 0 THEN players
                       ELSE SortByPoints(players, game.points),
           !.questionAssignments = Del(@, playerName),
           !.rankings = Del(@, playerName),
           !.state = IF Len(players) = 0 THEN @
                     ELSE IF Len(players) > 1 THEN "waiting" ELSE "joining"]

\* variant: the leaving player's ranking is kept
RemovePlayer_KeepsRanking(game, playerName) ==
    LET players == Splice(game.players, IndexOf(game.players, playerName))
        points == Del(game.points, playerName)
    IN [game EXCEPT
           !.players = IF Len(players) = 0 THEN players
                       ELSE SortByPoints(players, points),
           !.points = points,
           !.questionAssignments = Del(@, playerName),
           !.state = IF Len(players) = 0 THEN @
                     ELSE IF Len(players) > 1 THEN "waiting" ELSE "joining"]

\* disconnect's changes to a room that has the player (a room left with no
\* player is deleted by the caller)
RemovePlayer(game, playerName) ==
    LET players == Splice(game.players, IndexOf(game.players, playerName))
        points == Del(game.points, playerName)
    IN [game EXCEPT
           !.players = IF Len(players) = 0 THEN players
                       ELSE SortByPoints(players, points),
           !.points = points,
           !.questionAssignments = Del(@, playerName),
           !.rankings = Del(@, playerName),
           !.state = IF Len(players) = 0 THEN @
                     ELSE IF Len(players) > 1 THEN "waiting" ELSE "joining"]

\* the connection closes
disconnect(s) ==
    LET playerName == sockets[s].playerName
        affected == {g \in DOMAIN games : playerName \in Range(games[g].players)}
        deleted == {g \in affected : Len(games[g].players) = 1}
    IN
    /\ sockets' = [sockets EXCEPT ![s] = Socket(NoName, {}, FALSE)]
    /\ games' = [g \in (DOMAIN games) \ deleted |->
                    IF g \in affected THEN RemovePlayer(games[g], playerName) ELSE games[g]]
    /\ emitted' = UNION {Broadcast(sockets', g, Undefined, games[g].noMoreQuestions) :
                            g \in affected \ deleted}
    /\ pending' = [i \in 1..Len(pending) |->
                      LET task == pending[i]
                          gone == task.live /\ task.gameId \in deleted
                      IN [task EXCEPT
                             !.sock = IF @ = s THEN 0 ELSE @,
                             !.live = IF gone THEN FALSE ELSE @,
                             !.usedQuestions =
                                 IF gone THEN games[task.gameId].usedQuestions ELSE @]]
    /\ UNCHANGED <<globalUsedQuestions, questionCache, questionPool, fallbackQuestions, apiKey>>

-----------------------------------------------------------------------------
(* Specifications *)

\* after `node server.js` with no credential: no room, `connections`
\* connections to come, nothing used, the seed pool as loaded
InitServerWith(connections, pool, key, fallbacks) ==
    /\ games = [g \in {} |-> NewGame(Null)]
    /\ sockets = [s \in connections |-> Socket(NoName, {}, TRUE)]
    /\ globalUsedQuestions = {}
    /\ questionCache = <<>>
    /\ pending = <<>>
    /\ emitted = {}
    /\ questionPool = pool
    /\ fallbackQuestions = fallbacks
    /\ apiKey = key

InitServer(connections, pool, key) ==
    InitServerWith(connections, pool, key, KeptFallback(NumFallback))

Open == {s \in DOMAIN sockets : sockets[s].open}

\* player names, rankings and guesses the clients send
PlayerNames == {"A", "B"}
RankingInputs ==
    {<<"A">>, <<"B">>, <<"A", "B">>, <<"B", "A">>, <<"A", "A">>, <<"A", "C">>,
     <<"A", "B", "A">>}
GuessInputs == 0..3
GameIds == 1..MaxRooms

\* the whole life of rooms: no generative credential, a seed pool of one
\* question
Init == InitServer(1..MaxSockets, <<Seed1>>, FALSE)

Next ==
    \/ \E s \in Open, g \in GameIds, n \in PlayerNames : createGame(s, g, n)
    \/ \E s \in Open, g \in GameIds, n \in PlayerNames : joinGame(s, g, n)
    \/ \E s \in Open, g \in GameIds : startGame(s, g)
    \/ \E s \in Open, g \in GameIds, r \in RankingInputs, t \in PlayerNames :
          submitRanking(s, g, r, t)
    \/ \E s \in Open, g \in GameIds, k \in GuessInputs : submitGuess(s, g, k)
    \/ \E s \in Open, g \in GameIds, t \in PlayerNames : nextReveal(s, g, t)
    \/ \E s \in Open : disconnect(s)

Spec == Init /\ [][Next]_vars

\* several rounds: a seed pool of three questions, which with the fallback
\* list serve a room of two players twice; the owner joins as A, the guest as B
RoundsRankingInputs == {<<"A">>, <<"A", "B">>, <<"A", "A">>}
RoundsGuessInputs == 0..2

InitRounds == InitServer(1..MaxSockets, <<Seed1, Seed2, Seed3>>, FALSE)

NextRounds ==
    \/ \E s \in Open, g \in GameIds : createGame(s, g, "A")
    \/ \E s \in Open, g \in GameIds : joinGame(s, g, "B")
    \/ \E s \in Open, g \in GameIds : startGame(s, g)
    \/ \E s \in Open, g \in GameIds, r \in RoundsRankingInputs, t \in PlayerNames :
          submitRanking(s, g, r, t)
    \/ \E s \in Open, g \in GameIds, k \in RoundsGuessInputs : submitGuess(s, g, k)
    \/ \E s \in Open, g \in GameIds, t \in PlayerNames : nextReveal(s, g, t)
    \/ \E s \in Open : disconnect(s)

SpecRounds == InitRounds /\ [][NextRounds]_vars

\* the scoring of reveals: a room of 2..MaxPlayers players, each on a
\* connection of its own, right after the ranking that completed the first
\* round's rankings: the seed pool had a question for each player, every
\* player ranked the players in the order of joining, the rankers were
\* shuffled into that order too, and setNextReveal drew the first or the
\* second player as the target
MaxPlayers == 6
\* rooms that exist side by side in the specification of room isolation
IsolationRooms == 2
ScoreNames == <<"A", "B", "C", "D", "E", "F", "G", "H">>
\* the seed pool of this specification (questions.json may hold any strings)
ScorePool == <<Seed1, Seed2, Seed3, Gen1, Gen2, Gen3, BadFormat>>
ScoreGuessInputs == 0..2

ScoreRoom(n, target) ==
    LET players == SubSeq(ScoreNames, 1, n)
        questions == SubSeq(ScorePool, 1, n)
        joined == [NewGame(players[1]) EXCEPT
                       !.players = players,
                       !.points = [p \in Range(players) |-> 0]]
        started == [AssignTo(joined, questions, players, Range(questions))
                        EXCEPT !.state = "ranking"]
        ranked == [started EXCEPT !.rankings = [p \in Range(players) |-> players]]
    IN SetReveal(ranked, target)

InitScore ==
    \E n \in 2..MaxPlayers : \E target \in {ScoreNames[1], ScoreNames[2]} :
        /\ games = [g \in {1} |-> ScoreRoom(n, target)]
        /\ sockets = [s \in 1..n |-> Socket(ScoreNames[s], {1}, TRUE)]
        /\ globalUsedQuestions = Range(SubSeq(ScorePool, 1, n))
        /\ questionCache = <<>>
        /\ pending = <<>>
        /\ \E s \in 1..n : \E e \in PerPlayerEmits(sockets, 1, games[1]) :
              emitted = {Msg(s, "rankingSubmitted", "", 1, Undefined, FALSE)} \cup e
        /\ questionPool = SubSeq(ScorePool, 1, n)
        /\ fallbackQuestions = KeptFallback(NumFallback)
        /\ apiKey = FALSE

NextScore ==
    \/ \E s \in Open, k \in ScoreGuessInputs : submitGuess(s, 1, k)

SpecScore == InitScore /\ [][NextScore]_vars

\* players leave during a reveal: the rooms of the scoring runs, in which the
\* players guess and disconnect
NextLeave ==
    \/ \E s \in Open, g \in GameIds, k \in ScoreGuessInputs : submitGuess(s, g, k)
    \/ \E s \in Open : disconnect(s)

SpecLeave == InitScore /\ [][NextLeave]_vars

\* the question supply: the server starts with or without a generative
\* credential and with one of two seed pools, the second of which holds a
\* string of the fallback list; rooms are created, joined, started and left
SupplyPools == {<<Seed1>>, <<Seed1, AllFallbackQuestions[1]>>}
\* what the generative service may answer: <<>> stands for a failed request
\* or a body that does not parse
SupplyResponses ==
    {<<>>, <<Gen1>>, <<Gen1, Gen2>>, <<Gen3, Gen1>>, <<BadFormat, Gen3>>}

InitSupply ==
    \E pool \in SupplyPools, key \in BOOLEAN : InitServer(1..MaxSockets, pool, key)

NextSupply ==
    \/ \E s \in Open, g \in GameIds : createGame(s, g, "A")
    \/ \E s \in Open, g \in GameIds : joinGame(s, g, "B")
    \/ \E s \in Open, g \in GameIds : startGame(s, g) /\ Len(pending') <= SupplyPending
    \/ \E i \in 1..Len(pending), response \in SupplyResponses : ApiResponse(i, response)
    \/ \E s \in Open : disconnect(s)

SpecSupply == InitSupply /\ [][NextSupply]_vars

\* the question supply when every request to the generative service is
\* answered
SpecSupplyFair ==
    SpecSupply
    /\ WF_vars(\E i \in 1..Len(pending), response \in SupplyResponses : ApiResponse(i, response))

\* the local pools: no credential, a seed pool of one question and the first
\* PoolsFallback entries of the fallback list; the owner joins as A, the guest
\* as B
InitPools ==
    InitServerWith(1..MaxSockets, <<Seed1>>, FALSE, KeptFallback(PoolsFallback))

NextPools ==
    \/ \E s \in Open, g \in GameIds : createGame(s, g, "A")
    \/ \E s \in Open, g \in GameIds : joinGame(s, g, "B")
    \/ \E s \in Open, g \in GameIds : startGame(s, g)
    \/ \E s \in Open : disconnect(s)

SpecPools == InitPools /\ [][NextPools]_vars

\* the generative path: the server has a credential and a seed pool of one
\* question; the owner joins as A, the guest as B; the generative service
\* answers every request with the same two questions, so that its answers
\* are accepted until both are in the ledger and rejected afterwards
GenResponses == {<<Gen3, Gen1>>}

InitGen == InitServer(1..MaxSockets, <<Seed1>>, TRUE)

NextGen ==
    \/ \E s \in Open, g \in GameIds : createGame(s, g, "A")
    \/ \E s \in Open, g \in GameIds : joinGame(s, g, "B")
    \/ \E s \in Open, g \in GameIds : startGame(s, g)
    \/ \E i \in 1..Len(pending), response \in GenResponses : ApiResponse(i, response)
    \/ \E s \in Open : disconnect(s)

SpecGen == InitGen /\ [][NextGen]_vars

\* two rooms side by side: connections create rooms under either name, start
\* them, rank and close
IsolationIds == 1..IsolationRooms
IsolationRankings == {<<"A">>, <<"B">>}

InitIsolation == InitServer(1..MaxSockets, <<Seed1>>, FALSE)

NextIsolation ==
    \/ \E s \in Open, g \in IsolationIds, n \in PlayerNames : createGame(s, g, n)
    \/ \E s \in Open, g \in IsolationIds : startGame(s, g)
    \/ \E s \in Open, g \in IsolationIds, r \in IsolationRankings, t \in PlayerNames :
          submitRanking(s, g, r, t)
    \/ \E s \in Open : disconnect(s)

SpecIsolation == InitIsolation /\ [][NextIsolation]_vars

\* rounds played to the end: a room that A created and B joined; the owner
\* starts the game while the room waits, and nobody joins or leaves; the
\* supply is that of SpecRounds
ProgressRankings == {<<"A", "B">>, <<"B", "A">>}
ProgressRankingInputs == ProgressRankings \cup {<<"A">>}
ProgressGuesses == 1..2
ProgressGuessInputs == 0..2
ProgressPool == <<Seed1, Seed2, Seed3>>

\* the room after createGame('A') and joinGame('B')
ProgressRoom ==
    [NewGame("A") EXCEPT
        !.players = <<"A", "B">>,
        !.points = [p \in {"A", "B"} |-> 0]]

InitProgress ==
    /\ games = [g \in {1} |-> ProgressRoom]
    /\ sockets = [s \in 1..MaxSockets |->
                     IF s = 1 THEN Socket("A", {1}, TRUE)
                     ELSE IF s = 2 THEN Socket("B", {1}, TRUE)
                     ELSE Socket(NoName, {}, TRUE)]
    /\ globalUsedQuestions = {}
    /\ questionCache = <<>>
    /\ pending = <<>>
    /\ emitted = Broadcast(sockets, 1, Undefined, FALSE)
    /\ questionPool = ProgressPool
    /\ fallbackQuestions = KeptFallback(NumFallback)
    /\ apiKey = FALSE

NextProgress ==
    \/ \E s \in Open, g \in DOMAIN games :
          games[g].state = "waiting" /\ startGame(s, g)
    \/ \E s \in Open, g \in GameIds, r \in ProgressRankingInputs, t \in PlayerNames :
          submitRanking(s, g, r, t)
    \/ \E s \in Open, g \in GameIds, k \in ProgressGuessInputs : submitGuess(s, g, k)
    \/ \E s \in Open, g \in GameIds, t \in PlayerNames : nextReveal(s, g, t)

SpecProgress == InitProgress /\ [][NextProgress]_vars

\* every connection eventually sends, to the room it is in, a valid ranking, a
\* valid guess and nextReveal when that changes something
SpecProgressFair ==
    /\ SpecProgress
    /\ \A s \in 1..MaxSockets :
          /\ WF_vars(\E g \in sockets[s].rooms, r \in ProgressRankings, t \in PlayerNames :
                        submitRanking(s, g, r, t))
          /\ WF_vars(\E g \in sockets[s].rooms, k \in ProgressGuesses : submitGuess(s, g, k))
          /\ WF_vars(\E g \in sockets[s].rooms, t \in PlayerNames : nextReveal(s, g, t))

-----------------------------------------------------------------------------
(* Properties *)

\* the rooms a step keeps in the registry
Kept == (DOMAIN games) \cap (DOMAIN games')

\* the reveal setNextReveal sets up when a round's rankings are complete, or
\* when the owner advances, exists: the rankers are the players, and in phase
\* reveal every one of them has a ranking
RevealPossible ==
    \A g \in DOMAIN games :
        /\ games[g].state = "ranking" =>
              /\ games[g].currentRevealIndex = 0
              /\ Len(games[g].rankers) = Len(games[g].players)
              /\ Range(games[g].rankers) = Range(games[g].players)
        /\ games[g].state = "reveal" =>
              /\ Len(games[g].rankers) = Len(games[g].players)
              /\ Range(games[g].rankers) = Range(games[g].players)
              /\ DOMAIN games[g].rankings = Range(games[g].players)

\* the step's handler acknowledged a ranking for room g (`rankingSubmitted`)
RankingAcknowledged(g) ==
    \E m \in emitted' : m.event = "rankingSubmitted" /\ m.gameId = g

\* no room is in phase ranking with as many rankings as players
C1_NoFullRanking ==
    \A g \in DOMAIN games :
        games[g].state = "ranking" =>
            Cardinality(DOMAIN games[g].rankings) < Len(games[g].players)

\* a room goes from ranking to guessing exactly in a step that is an accepted
\* submitRanking after which the room has one ranking per player; an accepted
\* ranking is the submitter's only entry and touches no other entry
C1_StepRankingToGuessing ==
    \A g \in Kept :
        LET before == games[g]
            after == games'[g]
        IN /\ (before.state = "ranking" /\ after.state = "guessing")
                <=> (before.state = "ranking" /\ RankingAcknowledged(g)
                     /\ Cardinality(DOMAIN after.rankings) = Len(after.players))
           /\ (before.state = "ranking" /\ RankingAcknowledged(g)) =>
                \E p \in Range(before.players) :
                    /\ DOMAIN after.rankings = (DOMAIN before.rankings) \cup {p}
                    /\ \A q \in (DOMAIN before.rankings) \ {p} :
                          after.rankings[q] = before.rankings[q]

\* C1: the transition ranking -> guessing fires exactly when an accepted
\* submitRanking makes |rankings| = |players|, hence once per round; no state
\* has phase ranking with |rankings| = |players|; a player who submits again
\* adds no second entry
C1_RankingToGuessing == [](C1_NoFullRanking) /\ [][C1_StepRankingToGuessing]_vars

\* C1 witness: both players of a room have ranked, the second ranking was just
\* acknowledged, and the room is in phase guessing
C1_Witness ==
    \E g \in DOMAIN games :
        /\ games[g].state = "guessing"
        /\ Len(games[g].players) = 2
        /\ DOMAIN games[g].rankings = Range(games[g].players)
        /\ \E m \in emitted : m.event = "rankingSubmitted" /\ m.gameId = g

\* C2: no room with at least one player is in phase guessing while
\* |currentGuesses| = |players| - 1 (when all players but the ranker have
\* guessed, the transition to reveal has fired)
C2_GuessingToReveal ==
    \A g \in DOMAIN games :
        (Len(games[g].players) >= 1 /\ games[g].state = "guessing") =>
            Cardinality(DOMAIN games[g].currentGuesses) # Len(games[g].players) - 1

\* the guessers of room g whose guess, as recorded after the step, is
\* actualPosition
C3_Correct(g) ==
    {p \in DOMAIN games'[g].currentGuesses :
        games'[g].currentGuesses[p] = games[g].actualPosition}

\* the reward of the ranker for 0, 1, 2, 3, 4, 5 correct guesses
C3_RankerReward == <<0, 1, 2, 3, 3, 3>>

\* what a step that takes a room from guessing to reveal does to the points
C3_StepScoring ==
    \A g \in Kept :
        (games[g].state = "guessing" /\ games'[g].state = "reveal") =>
            LET correct == C3_Correct(g)
                count == Cardinality(correct)
                ranker == games[g].currentRanker
                gain(p) == games'[g].points[p] - games[g].points[p]
            IN /\ DOMAIN games'[g].points = DOMAIN games[g].points
               /\ ranker \notin correct
               /\ \A p \in correct : gain(p) = 1
               /\ gain(ranker) = (IF count <= 3 THEN count ELSE 3)
               /\ count <= 5 => gain(ranker) = C3_RankerReward[count + 1]
               /\ \A p \in (DOMAIN games[g].points) \ (correct \cup {ranker}) : gain(p) = 0

\* C3: at the transition guessing -> reveal each guesser whose recorded guess
\* is actualPosition gains exactly 1 point, currentRanker gains exactly
\* min(correctGuessCount, 3) points (0, 1, 2, 3, 5 correct guesses give
\* 0, 1, 2, 3, 3), and the points of every other player are unchanged
C3_Scoring == [][C3_StepScoring]_vars

\* C3 witness: five guessers were right, each has 1 point, and the ranker,
\* who had none, has 3
C3_Witness ==
    \E g \in DOMAIN games :
        /\ games[g].state = "reveal"
        /\ Cardinality(CorrectGuessers(games[g])) = 5
        /\ games[g].points[games[g].currentRanker] = 3
        /\ \A p \in CorrectGuessers(games[g]) : games[g].points[p] = 1

\* the points of a player who stays in a room change only in a step that
\* takes the room from guessing to reveal
C4_StepScoring ==
    \A g \in Kept :
        \A p \in Range(games[g].players) \cap Range(games'[g].players) :
            PointsOf(games'[g].points, p) # PointsOf(games[g].points, p) =>
                games[g].state = "guessing" /\ games'[g].state = "reveal"

\* C4: scoring is applied once per reveal: the points of an existing player
\* change only in the submitGuess step that moves the room from guessing to
\* reveal; no other step (a late or repeated submitGuess, submitRanking,
\* nextReveal, startGame, joinGame, another player's disconnect) changes them
C4_ScoredOncePerReveal == [][C4_StepScoring]_vars

\* C4 witness: a room whose players scored has begun a new round (nextReveal
\* after the last reveal) and the points are still there
C4_Witness ==
    \E g \in DOMAIN games :
        /\ games[g].state = "ranking"
        /\ games[g].currentRanker = Null
        /\ games[g].rankings = EmptyMap
        /\ \E p \in DOMAIN games[g].points : games[g].points[p] > 0

\* the strings an assignment gave to the players of a room
C5_Returned(game) ==
    {game.questionAssignments[p] : p \in DOMAIN game.questionAssignments} \ {Undefined}

\* the ledger loses nothing, and an acquisition that gives a room its
\* questions returns no string twice and only strings that were absent from
\* the ledger before the step and are in it afterwards
C5_StepAcquisition ==
    /\ globalUsedQuestions \subseteq globalUsedQuestions'
    /\ \A g \in Kept :
          (games'[g].players = games[g].players
           /\ games'[g].questionAssignments # games[g].questionAssignments) =>
              /\ \A p, q \in DOMAIN games'[g].questionAssignments :
                    (p # q /\ games'[g].questionAssignments[p] # Undefined) =>
                        games'[g].questionAssignments[p] # games'[g].questionAssignments[q]
              /\ C5_Returned(games'[g]) \cap globalUsedQuestions = {}
              /\ C5_Returned(games'[g]) \subseteq globalUsedQuestions'

\* C5: over any sequence of acquisitions, with or without a generative source,
\* no question string is returned by two acquisitions or twice within one, and
\* every returned string was absent from the global ledger before the call and
\* is in it afterwards
C5_GlobalUniqueness == [][C5_StepAcquisition]_vars

\* C6: in every state of every room, the keys of points, questionAssignments
\* and rankings are players of the room, and |rankings| <= |players|
C6_KeysArePlayers ==
    \A g \in DOMAIN games :
        LET players == Range(games[g].players)
        IN /\ DOMAIN games[g].points \subseteq players
           /\ DOMAIN games[g].questionAssignments \subseteq players
           /\ DOMAIN games[g].rankings \subseteq players
           /\ Cardinality(DOMAIN games[g].rankings) <= Len(games[g].players)

\* C6 witness: a player who had a question and a ranking has left a room in
\* which the other player, with a question and a ranking too, stays
C6_Witness ==
    \E g \in DOMAIN games :
        /\ games[g].state = "joining"
        /\ Len(games[g].players) = 1
        /\ DOMAIN games[g].rankings = Range(games[g].players)
        /\ DOMAIN games[g].questionAssignments = Range(games[g].players)
        /\ DOMAIN games[g].points = Range(games[g].players)

\* C7: in phase guessing or reveal, actualPosition is in 1..|players| and is
\* the 1-based index of currentTarget in rankings[currentRanker]
C7_ActualPosition ==
    \A g \in DOMAIN games :
        games[g].state \in {"guessing", "reveal"} =>
            /\ games[g].actualPosition \in 1..Len(games[g].players)
            /\ games[g].currentRanker \in DOMAIN games[g].rankings
            /\ games[g].actualPosition =
                  IndexOf(games[g].rankings[games[g].currentRanker],
                          games[g].currentTarget) + 1

\* seq names every member of S exactly once
IsPermutationOf(seq, S) ==
    /\ Len(seq) = Cardinality(S)
    /\ Range(seq) = S

\* a step writes an entry of rankings only for a permutation of the players,
\* and a step that answers a submitRanking with `Invalid ranking` changes no
\* room
C8_StepRankingIsPermutation ==
    /\ \A g \in Kept :
          \A p \in DOMAIN games'[g].rankings :
              (p \notin DOMAIN games[g].rankings
               \/ games'[g].rankings[p] # games[g].rankings[p]) =>
                  IsPermutationOf(games'[g].rankings[p], Range(games[g].players))
    /\ (\E m \in emitted' : m.event = "error" /\ m.text = "Invalid ranking") =>
          games' = games

\* C8: a submitRanking whose ranking is not a permutation of the room's
\* players (wrong length, a name outside players, a repeated name that leaves
\* a player out) is rejected: rankings and phase are unchanged
C8_MalformedRankingRejected == [][C8_StepRankingIsPermutation]_vars

\* the fields of room g that a rejected action leaves alone
RoomUnchanged(g) ==
    /\ g \in DOMAIN games'
    /\ games'[g].state = games[g].state
    /\ games'[g].questionAssignments = games[g].questionAssignments
    /\ games'[g].rankings = games[g].rankings
    /\ games'[g].rankers = games[g].rankers
    /\ games'[g].currentRevealIndex = games[g].currentRevealIndex
    /\ games'[g].currentGuesses = games[g].currentGuesses
    /\ games'[g].points = games[g].points

\* every handler, run in a phase that is not its own, leaves the room alone
C9_StepWrongPhase ==
    \A s \in Open, g \in DOMAIN games :
        /\ (games[g].state \in {"ranking", "guessing", "reveal"} /\ startGame(s, g))
              => RoomUnchanged(g)
        /\ \A r \in RankingInputs, t \in PlayerNames :
              (games[g].state # "ranking" /\ submitRanking(s, g, r, t)) => RoomUnchanged(g)
        /\ \A k \in GuessInputs :
              (games[g].state # "guessing" /\ submitGuess(s, g, k)) => RoomUnchanged(g)
        /\ \A t \in PlayerNames :
              (games[g].state # "reveal" /\ nextReveal(s, g, t)) => RoomUnchanged(g)

\* C9: an action sent in the wrong phase (startGame when the room is in
\* ranking, guessing or reveal, submitRanking outside ranking, submitGuess
\* outside guessing, nextReveal outside reveal) leaves phase,
\* questionAssignments, rankings, rankers, currentRevealIndex, currentGuesses
\* and points as they were
C9_WrongPhaseRejected == [][C9_StepWrongPhase]_vars

\* connection s does not carry the name of room g's owner
NotOwner(s, g) == games[g].owner # sockets[s].playerName

\* the step sent an error to connection s and nothing to anyone else
ErrorOnlyTo(s) ==
    /\ emitted' # {}
    /\ \A m \in emitted' : m.to = s /\ m.event = "error"

\* what a step may do to a room on behalf of a connection that is, or is not,
\* its owner's
C10_StepOwnerOnly ==
    \A g \in DOMAIN games :
        /\ \A s \in Open :
              (NotOwner(s, g) /\ startGame(s, g)) =>
                  (g \in DOMAIN games' /\ games'[g] = games[g] /\ ErrorOnlyTo(s))
        /\ \A s \in Open, t \in PlayerNames :
              (NotOwner(s, g) /\ nextReveal(s, g, t)) =>
                  (g \in DOMAIN games' /\ games'[g] = games[g] /\ ErrorOnlyTo(s))
        /\ (g \in DOMAIN games' /\ games[g].state = "waiting"
            /\ games'[g].state = "ranking") =>
                \E s \in Open : ~NotOwner(s, g) /\ startGame(s, g)
        /\ (g \in DOMAIN games' /\ games[g].state = "reveal"
            /\ games'[g].state \in {"guessing", "ranking"}) =>
                \E s \in Open, t \in PlayerNames : ~NotOwner(s, g) /\ nextReveal(s, g, t)

\* C10: startGame and nextReveal of a connection that is not the owner's give
\* an error to that connection and change nothing in the room; a room goes
\* from waiting to ranking only by the owner's startGame, and from reveal on
\* to the next reveal or the next round only by the owner's nextReveal
C10_OwnerOnly == [][C10_StepOwnerOnly]_vars

\* no room has a name twice among its players
C11_NoDuplicateNames ==
    \A g \in DOMAIN games :
        \A i, j \in 1..Len(games[g].players) :
            games[g].players[i] = games[g].players[j] => i = j

\* a joinGame for a room that does not exist, or with a name the room has,
\* sends an error to the caller alone and changes no room and no connection
C11_StepJoinRejected ==
    \A s \in Open, g \in GameIds, n \in PlayerNames :
        ((g \notin DOMAIN games \/ n \in Range(games[g].players)) /\ joinGame(s, g, n)) =>
            (games' = games /\ sockets' = sockets /\ ErrorOnlyTo(s))

\* C11: joinGame with a name already among the room's players, or with an
\* unknown room id, yields an error to the caller and changes no room state;
\* players never contains a name twice
C11_JoinRejected == [](C11_NoDuplicateNames) /\ [][C11_StepJoinRejected]_vars

\* C11 witness: a joinGame with a name of a room of two players was just
\* answered with `Name already taken`
C11_Witness ==
    \E g \in DOMAIN games :
        /\ Len(games[g].players) = 2
        /\ \E m \in emitted : m.event = "error" /\ m.text = "Name already taken"

\* the current ranker of a room has no entry in its currentGuesses
C12_RankerHasNoGuess ==
    \A g \in DOMAIN games :
        games[g].currentRanker \notin DOMAIN games[g].currentGuesses

\* a submitGuess by the current ranker, or with a position below 1 or above
\* |players|, leaves currentGuesses, points and the phase of the room alone,
\* and, sent by a player of a room that is taking guesses, is answered with an
\* error to the sender alone
C12_StepGuessRejected ==
    \A s \in Open, g \in DOMAIN games, k \in GuessInputs :
        ((sockets[s].playerName = games[g].currentRanker \/ k < 1 \/ k > Len(games[g].players))
         /\ submitGuess(s, g, k)) =>
            /\ g \in DOMAIN games'
            /\ games'[g].currentGuesses = games[g].currentGuesses
            /\ games'[g].points = games[g].points
            /\ games'[g].state = games[g].state
            /\ (games[g].state = "guessing"
                /\ sockets[s].playerName \in Range(games[g].players)) => ErrorOnlyTo(s)

C13_PhaseIsKnown ==
    \A g \in DOMAIN games : games[g].state \in {"waiting", "ranking", "guessing", "reveal"}

\* a disconnect that leaves exactly one player in a room puts it in waiting
C13_StepLastButOneLeaves ==
    \A s \in Open, g \in Kept :
        (sockets[s].playerName \in Range(games[g].players) /\ disconnect(s)
         /\ Len(games'[g].players) = 1) =>
            games'[g].state = "waiting"

\* C13: when a disconnect leaves exactly one player in a room (one of two
\* players leaves a room in phase reveal, say), the room's phase becomes
\* waiting; the phase of a room is always one of waiting, ranking, guessing,
\* reveal
C13_DisconnectToWaiting == [](C13_PhaseIsKnown) /\ [][C13_StepLastButOneLeaves]_vars

\* what the disconnect of a connection does to a room that has its player
C14_StepDisconnect ==
    \A s \in Open, g \in DOMAIN games :
        LET P == sockets[s].playerName IN
        (P \in Range(games[g].players) /\ disconnect(s)) =>
            IF g \in DOMAIN games'
            THEN /\ Range(games'[g].players) = Range(games[g].players) \ {P}
                 /\ Len(games'[g].players) = Len(games[g].players) - 1
                 /\ P \notin DOMAIN games'[g].points
                 /\ P \notin DOMAIN games'[g].questionAssignments
                 /\ P \notin DOMAIN games'[g].rankings
                 /\ \A q \in Range(games'[g].players) :
                       /\ q \in DOMAIN games'[g].points <=> q \in DOMAIN games[g].points
                       /\ PointsOf(games'[g].points, q) = PointsOf(games[g].points, q)
            ELSE Range(games[g].players) = {P}

\* C14: a disconnect of player P from a room removes P from players and P's
\* keys from points, questionAssignments and rankings, and leaves the points
\* of every remaining player unchanged
C14_DisconnectRemovesPlayer == [][C14_StepDisconnect]_vars

\* C14 witness: one of two players has left a room after a reveal, and the
\* player who stays has the points he scored
C14_Witness ==
    \E g \in DOMAIN games :
        /\ games[g].state = "joining"
        /\ Len(games[g].players) = 1
        /\ games[g].currentFullRanking # NullRanking
        /\ DOMAIN games[g].points = Range(games[g].players)
        /\ \A p \in DOMAIN games[g].points : games[g].points[p] > 0

\* the last emission reports to room g that question assignment failed
DepletionReported(g) ==
    \E m \in emitted : /\ m.event = "gameState"
                       /\ m.gameId = g
                       /\ m.noMoreQuestions

\* C15: when question assignment fails for a room, the noMoreQuestions field
\* of the room becomes true in the room state and stays true afterwards
C15_DepletionRecorded ==
    /\ [](\A g \in DOMAIN games : DepletionReported(g) => games[g].noMoreQuestions)
    /\ [][\A g \in DOMAIN games \cap DOMAIN games' :
             games[g].noMoreQuestions => games'[g].noMoreQuestions]_vars

\* the emissions of the step report that a question assignment failed
AssignmentFailureReported ==
    \E m \in emitted' :
        \/ m.event = "error" /\ m.text = "No more unique questions available."
        \/ m.event = "gameState" /\ m.noMoreQuestions

\* a step that reports a failed assignment keeps the round of every room
C16_StepFailureKeepsRound ==
    AssignmentFailureReported =>
        \A g \in DOMAIN games :
            /\ g \in DOMAIN games'
            /\ games'[g].state = games[g].state
            /\ games'[g].questionAssignments = games[g].questionAssignments
            /\ games'[g].rankings = games[g].rankings
            /\ games'[g].rankers = games[g].rankers

\* C16: when question assignment fails, the round does not advance: phase,
\* questionAssignments, rankings and rankers of the room are what they were
\* before the failed startGame or nextReveal
C16_FailureKeepsRound == [][C16_StepFailureKeepsRound]_vars

\* C16 witness: a new round has just failed for a room that stays in phase
\* reveal with its rankings and question assignments
C16_Witness ==
    \E g \in DOMAIN games :
        /\ DepletionReported(g)
        /\ games[g].state = "reveal"
        /\ games[g].currentRevealIndex >= Len(games[g].players)
        /\ DOMAIN games[g].rankings = Range(games[g].players)
        /\ DOMAIN games[g].questionAssignments = Range(games[g].players)

\* the strings of the seed pool and the fallback list that are outside the
\* used-set of the room and outside the global ledger
C17_Available(game) ==
    (Range(questionPool) \cup Range(fallbackQuestions))
        \ (game.usedQuestions \cup globalUsedQuestions)

\* an owner's startGame without a generative source either fails or gives the
\* players of the room as many distinct strings as there are players, and it
\* fails exactly when too few strings are available
C17_StepAcquisition ==
    \A s \in Open, g \in DOMAIN games :
        (~apiKey /\ games[g].owner = sockets[s].playerName /\ startGame(s, g)) =>
            LET count == Len(games[g].players)
                failed == AssignmentFailureReported
                returned == C5_Returned(games'[g])
            IN /\ pending' = pending
               /\ failed <=> Cardinality(C17_Available(games[g])) < count
               /\ failed => games'[g].questionAssignments = games[g].questionAssignments
               /\ ~failed => /\ DOMAIN games'[g].questionAssignments = Range(games[g].players)
                             /\ Cardinality(returned) = count

\* C17: with no generative source configured, an acquisition of count questions
\* fails, without a generative call, if and only if fewer than count strings of
\* the seed pool and the fallback list together are outside both the used-set
\* of the room and the global ledger; otherwise it returns exactly count
\* distinct strings
C17_FailsIffTooFew == [][C17_StepAcquisition]_vars

\* C18: every gameState snapshot delivered to a connection that carries a
\* myQuestion field carries the question assigned to the player of that
\* connection, never another player's question
C18_OwnQuestionOnly ==
    \A m \in emitted :
        (m.event = "gameState" /\ m.myQuestion # Undefined) =>
            /\ m.gameId \in DOMAIN games
            /\ m.myQuestion = AssignedQuestion(games[m.gameId], sockets[m.to].playerName)

\* the pending assignments that hold the room registered under g
TasksOf(g) == {i \in 1..Len(pending) : pending[i].live /\ pending[i].gameId = g}

\* no two assignments are suspended for the same room
C19_OneAssignmentPerRoom ==
    \A g \in DOMAIN games : Cardinality(TasksOf(g)) <= 1

\* an assignment that resumes in a room whose list of players is not the one
\* it counted before it was suspended (a joinGame or a disconnect wrote the
\* room meanwhile) does not overwrite the phase that handler wrote
C19_StepResume ==
    \A g \in Kept :
        \A i \in TasksOf(g) :
            (pending' = RemoveAt(pending, i)
             /\ Len(games[g].players) # pending[i].numQuestions) =>
                games'[g].state = games[g].state

\* C19: mutations of one room are mutually exclusive: while an assignment for
\* a room is suspended on the generative service no second assignment is
\* started for the room, and the task that resumes does not overwrite what
\* another handler wrote to the room in the meantime
C19_MutualExclusion == [](C19_OneAssignmentPerRoom) /\ [][C19_StepResume]_vars

\* C20: whenever a room is in phase ranking, every player of the room has an
\* assigned question and the assigned questions are pairwise distinct, also
\* when a joinGame or a disconnect is handled while the acquisition is in
\* flight
C20_RankingHasQuestions ==
    \A g \in DOMAIN games :
        games[g].state = "ranking" =>
            \A p \in Range(games[g].players) :
                /\ AssignedQuestion(games[g], p) # Undefined
                /\ \A q \in Range(games[g].players) :
                      q # p => AssignedQuestion(games[g], q) # AssignedQuestion(games[g], p)

\* the strings that come from the generative service only
C21_Generated == {Gen1, Gen2, Gen3, BadFormat}

\* the similarity score of a and b is at most 0.7
C21_AtMost07(a, b) == 10 * Similarity[a][b][1] <= 7 * Similarity[a][b][2]

\* every generated string that a step puts into the ledger scores at most 0.7
\* against every string the ledger held before the step and against every
\* other string the step puts into it
C21_StepAccepted ==
    LET accepted == (globalUsedQuestions' \ globalUsedQuestions) \cap C21_Generated
    IN \A q \in accepted :
          \A e \in (globalUsedQuestions \cup accepted) \ {q} : C21_AtMost07(q, e)

\* no two generated strings of the ledger score above 0.7 against each other
C21_NoNearDuplicates ==
    \A a, b \in globalUsedQuestions \cap C21_Generated : a # b => C21_AtMost07(a, b)

\* C21: a generated candidate is accepted into the global ledger only if its
\* similarity score to every string in the ledger at that moment, candidates
\* accepted earlier in the same batch included, is at most 0.7; two candidates
\* that score above 0.7 against the same used string are never both accepted
C21_SimilarityFilter == [](C21_NoNearDuplicates) /\ [][C21_StepAccepted]_vars

\* C21 witness: of an answer with two near-duplicate questions for a room of
\* two players the first was accepted and the second was not, and the request
\* is repeated
C21_Witness ==
    /\ ~C21_AtMost07(Gen2, Gen1)
    /\ Gen1 \in globalUsedQuestions
    /\ Gen2 \notin globalUsedQuestions
    /\ Gen3 \notin globalUsedQuestions
    /\ \E i \in 1..Len(pending) :
          /\ pending[i].numQuestions = 2
          /\ pending[i].attempt >= 2

\* the calls an acquisition has made are counted by the attempt of its task
C22_AtMostTenCalls ==
    \A i \in 1..Len(pending) : pending[i].attempt \in 1..10

\* an answer to a task makes it finish or repeat its request with the next
\* attempt, and the answer to the tenth request makes it finish
C22_StepAnswer ==
    \A i \in 1..Len(pending), response \in SupplyResponses :
        ApiResponse(i, response) =>
            \/ pending' = RemoveAt(pending, i)
            \/ /\ pending[i].attempt < 10
               /\ Len(pending') = Len(pending)
               /\ pending'[i].attempt = pending[i].attempt + 1

\* C22: one acquisition makes at most 10 calls to the generative service, one
\* after another; after the 10th unsuccessful attempt it falls back to the
\* local pools, so the acquisition terminates with a result or a failure
\* whenever each external call returns
C22_BoundedRetries ==
    /\ [](C22_AtMostTenCalls)
    /\ [][C22_StepAnswer]_vars
    /\ (pending # <<>>) ~> (pending = <<>>)

\* C22 witness: after ten unsuccessful attempts the acquisition has taken the
\* questions of a room from the local pools
C22_Witness ==
    /\ apiKey
    /\ pending = <<>>
    /\ \E g \in DOMAIN games :
          /\ games[g].state = "ranking"
          /\ \A p \in Range(games[g].players) :
                AssignedQuestion(games[g], p) \in Range(questionPool) \cup Range(fallbackQuestions)

\* the strings that are assigned to a player of some room
C23_HandedOut ==
    UNION {C5_Returned(games[g]) : g \in DOMAIN games}

\* an acquisition that starts while the first question of the prefetch cache
\* was handed to no room takes it: it is among the questions the room gets at
\* once, or among the cached questions the suspended acquisition holds
C23_StepDrain ==
    \A s \in Open, g \in DOMAIN games :
        (/\ apiKey
         /\ games[g].owner = sockets[s].playerName
         /\ questionCache # <<>>
         /\ Head(questionCache) \notin C23_HandedOut
         /\ startGame(s, g)) =>
            \/ Head(questionCache) \in C5_Returned(games'[g])
            \/ /\ Len(pending') = Len(pending) + 1
               /\ Head(questionCache) \in Range(pending'[Len(pending')].cachedQuestions)

\* C23: a question that an acquisition pushed into the prefetch cache as
\* validated surplus is available to a later acquisition: when a later call
\* drains the cache and the question was handed to no room in between, the
\* drain accepts and returns it
C23_SurplusIsReused == [][C23_StepDrain]_vars

\* the point delta of player p for a final map of guesses, the position of
\* the target and the ranker
C24_Delta(currentGuesses, actualPosition, currentRanker, p) ==
    LET right == {q \in DOMAIN currentGuesses : currentGuesses[q] = actualPosition}
    IN (IF p \in right THEN 1 ELSE 0)
       + (IF p = currentRanker
          THEN (IF Cardinality(right) < 3 THEN Cardinality(right) ELSE 3)
          ELSE 0)

\* the deltas a scoring step applies are those of the final map of guesses,
\* whatever the guesses recorded before the last one and their order were
C24_StepDeltas ==
    \A g \in Kept :
        (games[g].state = "guessing" /\ games'[g].state = "reveal") =>
            \A p \in Range(games[g].players) :
                PointsOf(games'[g].points, p) - PointsOf(games[g].points, p)
                    = C24_Delta(games'[g].currentGuesses, games[g].actualPosition,
                                games[g].currentRanker, p)

\* C24: scoring is independent of submission order: for a fixed final
\* currentGuesses map, actualPosition and currentRanker the point deltas
\* applied at the transition guessing -> reveal are the same for every order
\* in which the guesses were submitted, overwritten guesses included
C24_OrderIndependent == [][C24_StepDeltas]_vars

\* C24 witness: a reveal was scored in a room of three players or more, where
\* the guesses arrive in several orders, with a right and a wrong guess
C24_Witness ==
    \E g \in DOMAIN games :
        /\ games[g].state = "reveal"
        /\ Len(games[g].players) >= 3
        /\ \E p, q \in DOMAIN games[g].currentGuesses :
              /\ games[g].currentGuesses[p] = games[g].actualPosition
              /\ games[g].currentGuesses[q] # games[g].actualPosition
              /\ games[g].points[p] = 1
              /\ games[g].points[q] = 0

\* the step assigns a new set of questions to room g
C25_Assigned(g) ==
    /\ games'[g].state = "ranking"
    /\ games'[g].questionAssignments # games[g].questionAssignments

\* currentRevealIndex changes only by an assignment, which sets it to 0, or
\* by 1 in phase reveal; every assignment sets it to 0; and an owner's
\* nextReveal in phase reveal adds 1 unless it assigns the questions of a new
\* round
C25_StepRevealIndex ==
    \A g \in Kept :
        LET index == games[g].currentRevealIndex
            index2 == games'[g].currentRevealIndex
        IN /\ C25_Assigned(g) => index2 = 0
           /\ (~C25_Assigned(g) /\ index2 # index) =>
                 /\ index2 = index + 1
                 /\ games[g].state = "reveal"
           /\ \A s \in Open, target \in PlayerNames :
                 (/\ games[g].owner = sockets[s].playerName
                  /\ games[g].state = "reveal"
                  /\ nextReveal(s, g, target)) =>
                     \/ C25_Assigned(g)
                     \/ index2 = index + 1

\* C25: within a round revealIndex never decreases and grows by exactly 1 per
\* accepted owner nextReveal, and it is set back to 0 exactly in the steps
\* where a new set of questions is assigned to the room, in no other step
C25_RevealIndex == [][C25_StepRevealIndex]_vars

\* C25 witness: a room of two players is in the ranking phase of its second
\* round, after both reveals of the first were guessed right
C25_Witness ==
    \E g \in DOMAIN games :
        /\ games[g].state = "ranking"
        /\ games[g].currentRevealIndex = 0
        /\ Len(games[g].players) = 2
        /\ \A p \in Range(games[g].players) : PointsOf(games[g].points, p) = 2

\* C26: whenever a room is in phase ranking, guessing or reveal, rankers is a
\* permutation of the current players, and the k-th reveal of a round (k from
\* 0) has currentRanker = rankers[k], so that every player is the ranker of
\* exactly one reveal of the round
C26_RankersInOrder ==
    \A g \in DOMAIN games :
        LET game == games[g] IN
        /\ game.state \in {"ranking", "guessing", "reveal"} =>
              /\ Len(game.rankers) = Len(game.players)
              /\ Range(game.rankers) = Range(game.players)
              /\ \A i, j \in 1..Len(game.rankers) :
                    game.rankers[i] = game.rankers[j] => i = j
        /\ (game.state \in {"guessing", "reveal"}
            /\ game.currentRevealIndex < Len(game.players)) =>
              game.currentRanker = game.rankers[game.currentRevealIndex + 1]

\* C26 witness: the second reveal of a round of two players, whose ranker is
\* the second of the rankers and the first of the players
C26_Witness ==
    \E g \in DOMAIN games :
        /\ games[g].state = "guessing"
        /\ games[g].currentRevealIndex = 1
        /\ Len(games[g].players) = 2
        /\ games[g].currentRanker = games[g].rankers[2]
        /\ games[g].currentRanker = games[g].players[1]

\* an assignment whose questions include a string of the fallback list
\* includes every string of the seed pool that neither the room nor the
\* ledger held before
C27_StepSeedFirst ==
    \A g \in Kept :
        C25_Assigned(g) =>
            LET returned == C5_Returned(games'[g])
                unusedSeeds == Range(questionPool)
                                   \ (games[g].usedQuestions \cup globalUsedQuestions)
            IN returned \cap Range(fallbackQuestions) # {} => unusedSeeds \subseteq returned

\* C27: when local pools serve an acquisition, the seed pool is used before
\* the fallback list: a returned result contains a fallback-list string only
\* if it also contains every seed-pool string that was still unused, by the
\* room and globally, at the time of the call
C27_SeedPoolFirst == [][C27_StepSeedFirst]_vars

\* what a step that takes a room from guessing to reveal does to players
C28_StepSorted ==
    \A g \in Kept :
        (games[g].state = "guessing" /\ games'[g].state = "reveal") =>
            LET before == games[g].players
                after == games'[g].players
                points == games'[g].points
            IN /\ Len(after) = Len(before)
               /\ Range(after) = Range(before)
               /\ \A i, j \in 1..Len(after) :
                     i < j =>
                        /\ PointsOf(points, after[i]) >= PointsOf(points, after[j])
                        /\ PointsOf(points, after[i]) = PointsOf(points, after[j]) =>
                              IndexOf(before, after[i]) < IndexOf(before, after[j])

\* C28: immediately after every scoring step players is ordered by points
\* descending, players with equal points keep their previous relative order,
\* and the set of players is unchanged by the re-sort
C28_SortedAfterScoring == [][C28_StepSorted]_vars

\* C28 witness: a scoring has moved a player of a room of four forward, past
\* one who joined earlier, and the last two players have equal points
C28_Witness ==
    \E g \in DOMAIN games :
        /\ games[g].state = "reveal"
        /\ Len(games[g].players) = 4
        /\ games[g].players # games[g].rankers
        /\ games[g].points[games[g].players[2]] > games[g].points[games[g].players[3]]
        /\ games[g].points[games[g].players[3]] = games[g].points[games[g].players[4]]

\* in phase guessing the full ranking is not shown
C29_HiddenWhileGuessing ==
    \A g \in DOMAIN games :
        games[g].state = "guessing" => games[g].currentFullRanking = NullRanking

\* a step that enters guessing starts with no guesses, and a step that enters
\* reveal shows the ranking of the ranker
C29_StepReveal ==
    \A g \in Kept :
        /\ (games[g].state # "guessing" /\ games'[g].state = "guessing") =>
              games'[g].currentGuesses = EmptyMap
        /\ (games[g].state # "reveal" /\ games'[g].state = "reveal") =>
              /\ games[g].currentRanker \in DOMAIN games[g].rankings
              /\ games'[g].currentFullRanking = games[g].rankings[games[g].currentRanker]

\* C29: currentFullRanking is null in every state with phase guessing, and in
\* the step that enters reveal it is set to rankings[currentRanker];
\* currentGuesses is empty at the start of every reveal
C29_FullRankingAndGuesses == [](C29_HiddenWhileGuessing) /\ [][C29_StepReveal]_vars

\* C29 witness: the second reveal of a round begins, after a first one in
\* which a guess was recorded, scored and the full ranking shown
C29_Witness ==
    \E g \in DOMAIN games :
        /\ games[g].state = "guessing"
        /\ games[g].currentRevealIndex = 1
        /\ games[g].currentGuesses = EmptyMap
        /\ games[g].currentFullRanking = NullRanking
        /\ \E p \in DOMAIN games[g].points : games[g].points[p] > 0

\* what the disconnect of a player does to the phase of a room that stays
C30_StepDisconnect ==
    \A s \in Open, g \in Kept :
        (sockets[s].playerName \in Range(games[g].players) /\ disconnect(s)) =>
            /\ Len(games'[g].players) >= 2 => games'[g].state = games[g].state
            /\ (games'[g].state = "waiting" /\ games[g].state # "waiting") =>
                  Len(games'[g].players) <= 1

\* C30: a disconnect that leaves two or more players in a room does not
\* change the phase of the room: a disconnect demotes the room to waiting
\* only when at most one player remains
C30_DisconnectKeepsPhase == [][C30_StepDisconnect]_vars


\* the rooms a step of connection s must leave alone: those s neither created
\* nor joined
C31_OthersUntouched(s) ==
    \A g \in DOMAIN games :
        g \notin sockets[s].rooms => g \in DOMAIN games' /\ games'[g] = games[g]

\* a step that is an event of connection s changes no room outside s's rooms
C31_StepIsolated ==
    \A s \in Open :
        (\/ \E g \in IsolationIds : startGame(s, g)
         \/ \E g \in IsolationIds, r \in IsolationRankings, t \in PlayerNames :
               submitRanking(s, g, r, t)
         \/ disconnect(s))
        => C31_OthersUntouched(s)

\* C31: rooms are isolated: a startGame, submitRanking or disconnect of a
\* connection changes only the rooms that connection created or joined, also
\* when its player name equals the name of a player or the owner of another
\* room
C31_RoomsIsolated == [][C31_StepIsolated]_vars


\* a room of the registry has at least one player: the room of the last player
\* who disconnects is removed
C32_NoEmptyRoom == \A g \in DOMAIN games : Len(games[g].players) > 0

\* C32: the owner of every room of the registry is one of the room's players,
\* and no room of the registry is without players
C32_OwnerIsPlayer ==
    /\ C32_NoEmptyRoom
    /\ \A g \in DOMAIN games : games[g].owner \in Range(games[g].players)


\* C33: while a room is in phase guessing or reveal its reveal index is at
\* least 0 and below the number of players, and the current ranker is the
\* entry of rankers at that index, also after nextReveal actions that follow a
\* failed new-round assignment
C33_RevealIndexInRange ==
    \A g \in DOMAIN games :
        games[g].state \in {"guessing", "reveal"} =>
            /\ 0 <= games[g].currentRevealIndex
            /\ games[g].currentRevealIndex < Len(games[g].players)
            /\ games[g].currentRevealIndex < Len(games[g].rankers)
            /\ games[g].currentRanker = games[g].rankers[games[g].currentRevealIndex + 1]


\* a successful join: the room exists and has no player of that name
C34_JoinSucceeds(g, playerName) ==
    g \in DOMAIN games /\ playerName \notin Range(games[g].players)

\* a step that is a successful join leaves the room in phase waiting, with the
\* new player at 0 points and every other player's points as before
C34_StepJoin ==
    \A s \in Open, g \in GameIds, n \in PlayerNames :
        (C34_JoinSucceeds(g, n) /\ joinGame(s, g, n)) =>
            /\ games'[g].state = "waiting"
            /\ games'[g].players = Append(games[g].players, n)
            /\ games'[g].points[n] = 0
            /\ \A p \in Range(games[g].players) :
                   games'[g].points[p] = games[g].points[p]

\* C34: after every successful joinGame the room's phase is waiting, whatever
\* phase it was in; the new player has 0 points and the points of the players
\* already in the room are unchanged
C34_JoinInterruptsRound == [][C34_StepJoin]_vars

\* a player with points started a round alone, and a second player joined
\* while it ran: the room is waiting, the newcomer has 0 points
C34_Witness ==
    \E g \in DOMAIN games :
        /\ games[g].state = "waiting"
        /\ games[g].players = <<"A", "B">>
        /\ games[g].rankers = <<"A">>
        /\ games[g].points["A"] > 0
        /\ games[g].points["B"] = 0


\* a step that reports a failed assignment leaves the ledger, the cache and
\* every room's used-set as they were before the step
C35_StepFailureConsumesNothing ==
    AssignmentFailureReported =>
        /\ globalUsedQuestions' = globalUsedQuestions
        /\ questionCache' = questionCache
        /\ \A g \in DOMAIN games :
               g \in DOMAIN games' /\ games'[g].usedQuestions = games[g].usedQuestions

C36_InRound(g, n) ==
    /\ g \in DOMAIN games
    /\ games[g].state = "ranking"
    /\ Len(games[g].players) >= 2
    /\ Cardinality(games[g].usedQuestions) = n
    /\ Cardinality(C17_Available(games[g])) >= Len(games[g].players)

\* room g is at the start of the round after that: phase ranking, no rankings,
\* reveal index 0, every player holds a question, and one question more per
\* player is used
C36_NextRound(g, n) ==
    /\ g \in DOMAIN games
    /\ games[g].state = "ranking"
    /\ games[g].rankings = EmptyMap
    /\ games[g].currentRevealIndex = 0
    /\ DOMAIN games[g].questionAssignments = Range(games[g].players)
    /\ Cardinality(games[g].usedQuestions) = n + Len(games[g].players)

\* the questions a step assigns to the players of a new round were not used
\* in the room before
C36_StepFresh ==
    \A g \in Kept :
        C25_Assigned(g) =>
            \A p \in Range(games'[g].players) :
                games'[g].questionAssignments[p] \notin games[g].usedQuestions

\* C36: in a room of at least two players with enough unused questions, where
\* nobody joins or leaves, every player eventually ranks, every non-ranker
\* eventually guesses and the owner eventually sends nextReveal, a round in
\* its ranking phase is eventually followed by the ranking phase of a new
\* round, with fresh question assignments, no rankings and reveal index 0
C36_RoundProgress ==
    /\ \A g \in GameIds : C36_InRound(g, 2) ~> C36_NextRound(g, 2)
    /\ [][C36_StepFresh]_vars

\* a room of two players is at the start of its second round: every question
\* of the supply is used
C36_Witness ==
    \E g \in DOMAIN games :
        /\ games[g].state = "ranking"
        /\ games[g].rankings = EmptyMap
        /\ games[g].currentRevealIndex = 0
        /\ Len(games[g].players) = 2
        /\ Cardinality(games[g].usedQuestions) = 4
        /\ DOMAIN games[g].questionAssignments = Range(games[g].players)

====
